---- MODULE Spec2Model ----
(***************************************************************************)
(* Model of ui/app.py of the Covid-19 Data Analysis & Prediction           *)
(* dashboard: load_data (the normalizer), create_sample_data (the live     *)
(* fetcher with its synthetic fallback), predict_cases (the forecaster),   *)
(* the year / quarter rollups, and the module-level script that Streamlit  *)
(* re-runs once per user interaction around st.session_state.data.         *)
(*                                                                         *)
(* Dates are day ordinals counted from 1 January of EpochYear; strings     *)
(* are TLA+ strings out of a fixed vocabulary, and the string library      *)
(* calls of the code (str.lower, str.strip, the character tests of line    *)
(* 11, pd.to_numeric, pd.to_datetime) are tabulated over that vocabulary.  *)
(* Numeric cells are integers: the model has no fractional cell values.    *)
(***************************************************************************)
EXTENDS Integers, Sequences, FiniteSets, TLC

VARIABLES
    data,       \* st.session_state.data: [held, df]; held = FALSE is None
    uploaded,   \* the file_uploader widget's value: [present, file]
    run,        \* what the latest script run did (observation of the run)
    inp,        \* input of the function under check (function specifications)
    out,        \* its result
    pc          \* "ready" before the function is applied, "done" after

vars == <<data, uploaded, run, inp, out, pc>>

(***************************************************************************)
(* Bounds of the model.                                                    *)
(***************************************************************************)
MaxRows == 2
MaxSeries == 2
MaxHorizon == 2
MaxExtra == 1

(***************************************************************************)
(* Calendar: what pandas' Timestamp arithmetic does on whole days.         *)
(***************************************************************************)
EpochYear == 2020

NaT == -1

IsLeap(y) == (y % 4 = 0 /\ y % 100 # 0) \/ y % 400 = 0

DaysInYear(y) == IF IsLeap(y) THEN 366 ELSE 365

DaysInMonth(y, m) ==
    IF m = 2 THEN (IF IsLeap(y) THEN 29 ELSE 28)
    ELSE IF m \in {4, 6, 9, 11} THEN 30 ELSE 31

RECURSIVE DaysBeforeYear(_)
DaysBeforeYear(y) ==
    IF y <= EpochYear THEN 0 ELSE DaysBeforeYear(y - 1) + DaysInYear(y - 1)

RECURSIVE DaysBeforeMonth(_, _)
DaysBeforeMonth(y, m) ==
    IF m <= 1 THEN 0 ELSE DaysBeforeMonth(y, m - 1) + DaysInMonth(y, m - 1)

\* The ordinal of the calendar date y-m-d.
Ord(y, m, d) == DaysBeforeYear(y) + DaysBeforeMonth(y, m) + (d - 1)

RECURSIVE YearFrom(_, _)
YearFrom(y, o) == IF o < DaysInYear(y) THEN y ELSE YearFrom(y + 1, o - DaysInYear(y))

\* df['date'].dt.year
YearOf(o) == YearFrom(EpochYear, o)

RECURSIVE MonthFrom(_, _, _)
MonthFrom(y, m, o) ==
    IF o < DaysInMonth(y, m) THEN m ELSE MonthFrom(y, m + 1, o - DaysInMonth(y, m))

MonthOf(o) == MonthFrom(YearOf(o), 1, o - DaysBeforeYear(YearOf(o)))

\* df['date'].dt.quarter
QuarterOf(o) == ((MonthOf(o) - 1) \div 3) + 1

(***************************************************************************)
(* Strings: the vocabulary and the library calls tabulated over it.        *)
(***************************************************************************)
\* any(char in str(col) for char in ['/', '-'])
HasSeparator(s) ==
    s \in {"1/1/21", "01/01/21", "1/2/21", "12/31/20", "x-1", "cfr-7d",
           "2021-01-02", "2020-12-31", "2021-04-01"}

\* any(char.isdigit() for char in str(col))
HasDigit(s) ==
    s \in {"1/1/21", "01/01/21", "1/2/21", "12/31/20", "x-1", "cfr-7d",
           "2021-01-02", "2020-12-31", "2021-04-01", "-2", "1", "12", "3"}

\* str.lower()
Lower(s) ==
    CASE s = "Date " -> "date "
      [] s = "Cases" -> "cases"
      [] s = "Country" -> "country"
      [] s = "Deaths" -> "deaths"
      [] OTHER -> s

\* str.strip()
Strip(s) ==
    CASE s = "date " -> "date"
      [] s = "Date " -> "Date"
      [] OTHER -> s

\* pd.to_datetime(..., errors='coerce') of one string: its date, or NaT.
ToDatetime(s) ==
    CASE s = "1/1/21" -> Ord(2021, 1, 1)
      [] s = "01/01/21" -> Ord(2021, 1, 1)
      [] s = "1/2/21" -> Ord(2021, 1, 2)
      [] s = "12/31/20" -> Ord(2020, 12, 31)
      [] s = "2021-01-02" -> Ord(2021, 1, 2)
      [] s = "2020-12-31" -> Ord(2020, 12, 31)
      [] s = "2021-04-01" -> Ord(2021, 4, 1)
      [] OTHER -> NaT

\* A numeric value, or NaN.
Num(v) == [nan |-> FALSE, v |-> v]
NaN == [nan |-> TRUE, v |-> 0]

\* pd.to_numeric(..., errors='coerce') of one cell.
ToNumeric(s) ==
    CASE s = "-2" -> Num(-2)
      [] s = "1" -> Num(1)
      [] s = "3" -> Num(3)
      [] s = "12" -> Num(12)
      [] OTHER -> NaN

\* Series.fillna(0) of one value.
FillNa0(x) == IF x.nan THEN 0 ELSE x.v

(***************************************************************************)
(* Sequence helpers.                                                       *)
(***************************************************************************)
\* Sums and maxima split their range in halves, which keeps the recursion
\* shallow on the 1461 records of the fallback table.
RECURSIVE SumRange(_, _, _)
SumRange(s, lo, hi) ==
    IF lo > hi THEN 0
    ELSE IF lo = hi THEN s[lo]
    ELSE LET mid == (lo + hi) \div 2
         IN SumRange(s, lo, mid) + SumRange(s, mid + 1, hi)

\* Series.sum()
SumSeq(s) == SumRange(s, 1, Len(s))

RECURSIVE MaxRange(_, _, _)
MaxRange(s, lo, hi) ==
    IF lo = hi THEN s[lo]
    ELSE LET mid == (lo + hi) \div 2
             a == MaxRange(s, lo, mid)
             b == MaxRange(s, mid + 1, hi)
         IN IF a >= b THEN a ELSE b

\* Series.max() of a non-empty sequence.
SeqMax(s) == MaxRange(s, 1, Len(s))

Min(S) == CHOOSE x \in S : \A y \in S : x <= y
Max(S) == CHOOSE x \in S : \A y \in S : x >= y

\* The elements of a finite set of integers, ascending.
RECURSIVE SortSet(_)
SortSet(S) == IF S = {} THEN <<>> ELSE <<Min(S)>> \o SortSet(S \ {Min(S)})

\* Series.clip(lower=0) of one value.
Clip0(x) == IF x < 0 THEN 0 ELSE x

\* Series.diff().fillna(first) of a sequence: the first element keeps its
\* value, every other one becomes its difference from the previous one.
DiffFillFirst(s) == [i \in DOMAIN s |-> IF i = 1 THEN s[1] ELSE s[i] - s[i - 1]]

\* pd.DataFrame(...): the rows as one sequence, each row evaluated once.
DataFrame(rows) == SubSeq(rows, 1, Len(rows))

Row(d, c, de, r) == [date |-> d, cases |-> c, deaths |-> de, recovered |-> r]

Result(df) == [raised |-> FALSE, err |-> "", df |-> df]
Raise(e) == [raised |-> TRUE, err |-> e, df |-> <<>>]

(***************************************************************************)
(* load_data: the normalizer.  A file is what pd.read_csv returns: the     *)
(* column names and the rows of cell texts.                                *)
(***************************************************************************)
IsDatePattern(col) == HasSeparator(col) /\ HasDigit(col)

date_pattern_cols(file) == SelectSeq(file.cols, IsDatePattern)

\* 'date' not in df.columns.str.lower()
NoDateColumn(file) == \A i \in DOMAIN file.cols : Lower(file.cols[i]) # "date"

IsWide(file) == date_pattern_cols(file) # <<>> /\ NoDateColumn(file)

ColIndex(cols, name) == CHOOSE i \in DOMAIN cols : cols[i] = name

\* df.melt: one row per (date-like column, input row), column by column.
Melt(file) ==
    LET dc == date_pattern_cols(file)
        n == Len(file.rows)
    IN [k \in 1..(Len(dc) * n) |->
          LET c == ((k - 1) \div n) + 1
              r == ((k - 1) % n) + 1
          IN [date |-> ToDatetime(dc[c]),
              cases |-> FillNa0(ToNumeric(file.rows[r][ColIndex(file.cols, dc[c])]))]]

\* A grouping that keeps the last value of each date instead of the sum.
GroupLastByDate(melted) ==
    LET keys == SortSet({melted[k].date : k \in DOMAIN melted} \ {NaT})
        last(d) == melted[Max({k \in DOMAIN melted : melted[k].date = d})].cases
    IN [i \in DOMAIN keys |-> [date |-> keys[i], cases |-> last(keys[i])]]

\* groupby('date').agg({'cases': 'sum'}): NaT keys are left out, the keys
\* come out ascending.
GroupSumByDate(melted) ==
    LET keys == SortSet({melted[k].date : k \in DOMAIN melted} \ {NaT})
        total(d) == SumSeq([k \in DOMAIN melted |->
                              IF melted[k].date = d THEN melted[k].cases ELSE 0])
    IN [i \in DOMAIN keys |-> [date |-> keys[i], cases |-> total(keys[i])]]

\* len(df) > 1 and df['cases'].iloc[-1] > df['cases'].iloc[0] * 10
LooksCumulative(g) == Len(g) > 1 /\ g[Len(g)].cases > g[1].cases * 10

\* df['cases'].diff().fillna(df['cases'].iloc[0]).clip(lower=0)
DeCumulate(g) ==
    LET d == DiffFillFirst([i \in DOMAIN g |-> g[i].cases])
    IN [i \in DOMAIN g |-> [date |-> g[i].date, cases |-> Clip0(d[i])]]

WidePath(file) ==
    LET g == GroupSumByDate(Melt(file))
        h == IF LooksCumulative(g) THEN DeCumulate(g) ELSE g
    IN [i \in DOMAIN h |-> Row(h[i].date, h[i].cases, 0, 0)]

\* df.columns.str.lower().str.strip()
NormCols(cols) == [i \in DOMAIN cols |-> Strip(Lower(cols[i]))]

HasCol(cols, name) == \E i \in DOMAIN cols : cols[i] = name

\* A count column of the long path (deaths, recovered): 0 when the column
\* is absent, else to_numeric with the unparseable cells zeroed.
OptionalCount(cols, row, name) ==
    IF HasCol(cols, name) THEN FillNa0(ToNumeric(row[ColIndex(cols, name)])) ELSE 0

LongPath(file) ==
    LET cols == NormCols(file.cols)
        rows == file.rows
        dateOf(r) == ToDatetime(r[ColIndex(cols, "date")])
        casesOf(r) == ToNumeric(r[ColIndex(cols, "cases")])
        kept == SelectSeq(rows, LAMBDA r : dateOf(r) # NaT /\ ~casesOf(r).nan)
    IN IF ~HasCol(cols, "date") \/ ~HasCol(cols, "cases")
       THEN Raise("Missing required columns")
       ELSE IF \A i \in DOMAIN rows : dateOf(rows[i]) = NaT
       THEN Raise("Could not parse date column")
       ELSE IF \A i \in DOMAIN rows : casesOf(rows[i]).nan
       THEN Raise("Could not parse cases column")
       ELSE Result([i \in DOMAIN kept |->
                      Row(dateOf(kept[i]), casesOf(kept[i]).v,
                          OptionalCount(cols, kept[i], "deaths"),
                          OptionalCount(cols, kept[i], "recovered"))])

load_data(file) ==
    LET r == IF IsWide(file) THEN Result(WidePath(file)) ELSE LongPath(file)
    IN IF r.raised THEN r
       ELSE IF Len(r.df) = 0 THEN Raise("No valid data rows found after cleaning")
       ELSE r

(***************************************************************************)
(* create_sample_data: the live fetcher.  An outcome is what the one HTTP  *)
(* request of line 69 comes back with: a failure kind, or "ok" with the    *)
(* decoded body.  A series of the body is the list of its (date string,    *)
(* cumulative value) items in the order of the JSON object.                *)
(***************************************************************************)
\* data.get(name, {})
Get(body, name) == IF body[name].present THEN body[name].items ELSE <<>>

\* pd.to_datetime(df['date']) without errors='coerce': raises on a string
\* that is no date.
DatesRaise(items) == \E i \in DOMAIN items : ToDatetime(items[i].k) = NaT

\* df.merge(right, on='date', how='left') followed by fillna(0) of the new
\* column: every left row, in order, once per right item of its date, and
\* once with 0 when the right side has none.
\* A merge with how='inner': left rows without a right item are dropped.
RECURSIVE MergeInner(_, _, _)
MergeInner(left, items, field) ==
    IF left = <<>> THEN <<>>
    ELSE LET l == Head(left)
             m == SelectSeq(items, LAMBDA it : ToDatetime(it.k) = l.date)
         IN [j \in DOMAIN m |-> [l EXCEPT ![field] = m[j].v]]
            \o MergeInner(Tail(left), items, field)

RECURSIVE MergeLeft(_, _, _)
MergeLeft(left, items, field) ==
    IF left = <<>> THEN <<>>
    ELSE LET l == Head(left)
             m == SelectSeq(items, LAMBDA it : ToDatetime(it.k) = l.date)
             rows == IF m = <<>> THEN <<[l EXCEPT ![field] = 0]>>
                     ELSE [j \in DOMAIN m |-> [l EXCEPT ![field] = m[j].v]]
         IN rows \o MergeLeft(Tail(left), items, field)

\* df.sort_values('date'): ascending, rows of one date in their old order.
RECURSIVE ConcatByKey(_, _)
ConcatByKey(rows, keys) ==
    IF keys = <<>> THEN <<>>
    ELSE SelectSeq(rows, LAMBDA r : r.date = Head(keys)) \o ConcatByKey(rows, Tail(keys))

SortByDate(rows) == ConcatByKey(rows, SortSet({rows[i].date : i \in DOMAIN rows}))

\* df[col].diff().fillna(df[col].iloc[0]).astype(int), then clip(lower=0).
DeltaColumn(rows, field) ==
    LET d == DiffFillFirst([i \in DOMAIN rows |-> rows[i][field]])
    IN [i \in DOMAIN rows |-> [rows[i] EXCEPT ![field] = Clip0(d[i])]]

\* The try block, lines 68-108.
PrimaryPath(outcome) ==
    LET cases_dict == Get(outcome.body, "cases")
        deaths_dict == Get(outcome.body, "deaths")
        recovered_dict == Get(outcome.body, "recovered")
        df0 == [i \in DOMAIN cases_dict |->
                  Row(ToDatetime(cases_dict[i].k), cases_dict[i].v, 0, 0)]
        df1 == IF deaths_dict # <<>> THEN MergeLeft(df0, deaths_dict, "deaths") ELSE df0
        df2 == IF recovered_dict # <<>> THEN MergeLeft(df1, recovered_dict, "recovered")
               ELSE df1
        df3 == SortByDate(df2)
    IN IF outcome.kind # "ok" THEN Raise(outcome.kind)
       ELSE IF DatesRaise(cases_dict) \/ DatesRaise(deaths_dict) \/ DatesRaise(recovered_dict)
       THEN Raise("to_datetime")
       ELSE IF Len(df3) = 0 THEN Raise("iloc[0] out of bounds")
       ELSE Result(DeltaColumn(DeltaColumn(DeltaColumn(df3, "cases"), "deaths"), "recovered"))

(***************************************************************************)
(* The synthetic fallback, lines 110-122.                                  *)
(***************************************************************************)
\* floor(1000 * 200 * sin(0.1 * i)) for i = 0 .. 1460, entry i + 1.
Sin200Milli ==
    << 0, 19966, 39733, 59104, 77883, 95885, 112928, 128843, 143471, 156665, 168294, 178241,
           186407, 192711, 197089, 199498, 199914, 198332, 194769, 189260, 181859, 172641, 161699, 149141,
           135092, 119694, 103100, 85475, 66997, 47849, 28224, 8316, -11675, -31550, -51109, -70157,
           -88505, -105968, -122372, -137554, -151361, -163656, -174316, -183234, -190321, -195507, -198739, -199985,
           -199233, -196491, -191785, -185163, -176691, -166454, -154553, -141109, -126254, -110138, -92921, -74776,
           -55884, -36433, -16618, 3362, 23309, 43023, 62308, 80969, 98822, 115687, 131397, 145793,
           158733, 170087, 179741, 187599, 193583, 197633, 199708, 199788, 197871, 193977, 188146, 180434,
           170919, 159697, 146879, 132593, 116983, 100204, 82423, 63819, 44577, 24890, 4955, -15031,
           -34866, -54353, -73296, -91508, -108805, -125015, -139975, -153538, -165566, -175940, -184556, -191328,
           -196188, -199088, -199999, -198911, -195836, -190804, -183866, -175091, -164566, -152397, -138706, -123628,
           -107315, -89930, -71646, -52647, -33121, -13265, 6724, 26646, 46301, 65494, 84033, 101732,
           118414, 133913, 148075, 160756, 171832, 181190, 188739, 194401, 198121, 199861, 199605, 197354,
           193131, 186979, 178958, 169149, 157650, 144576, 130057, 114239, 97279, 79348, 60623, 41293,
           21550, 1592, -18382, -38172, -57581, -76415, -94485, -111611, -127622, -142358, -155671, -167429,
           -177514, -185825, -192280, -196814, -199381, -199955, -198532, -195126, -189769, -182517, -173441, -162632,
           -150198, -136263, -120967, -104462, -86914, -68497, -49395, -29800, -9908, 10084, 29975, 49566,
           68662, 87073, 104613, 121107, 136392, 150314, 162734, 173528, 182589, 189824, 195164, 198553,
           199958, 199365, 196781, 192230, 185759, 177431, 167331, 155558, 142232, 127484, 111463, 94327,
           76250, 57410, 37997, 18204, -1771, -21728, -41468, -60793, -79512, -97435, -114386, -130193,
           -144699, -157760, -169245, -179038, -187042, -193178, -197384, -199617, -199856, -198098, -194360, -188681,
           -181116, -171742, -160652, -147956, -133782, -118272, -101580, -83873, -65328, -46130, -26471, -6548,
           13441, 33296, 52817, 71811, 90088, 107464, 123767, 138832, 152511, 164666, 175176, 183935,
           190857, 195871, 198928, 199998, 199070, 196152, 191275, 184486, 175854, 165465, 153423, 139848,
           124875, 108655, 91349, 73130, 54181, 34690, 14853, -5133, -25068, -44752, -63988, -82586,
           -100358, -117128, -132727, -147000, -159805, -171012, -180511, -188207, -194022, -197898, -199797, -199700,
           -197607, -193540, -187539, -179664, -169994, -158626, -145673, -131264, -115544, -98669, -80808, -62140,
           -42851, -23134, -3186, 16794, 36607, 56053, 74940, 93077, 110285, 126391, 141233, 154665,
           166551, 176774, 185230, 191835, 196523, 199248, 199982, 198718, 195468, 190265, 183161, 174228,
           163553, 151244, 137424, 122231, 105816, 88344, 69990, 50936, 31373, 11497, -8494, -28400,
           -48023, -67165, -85637, -103253, -119837, -135224, -149260, -161804, -172732, -181934, -189318, -194810,
           -198356, -199920, -199487, -197060, -192665, -186344, -178161, -168199, -156555, -143348, -128708, -112782,
           -95730, -77721, -58935, -39560, -19790, 177, 20143, 39907, 59273, 78047, 96040, 113075,
           128979, 143594, 156775, 168390, 178321, 186472, 192759, 197120, 199511, 199909, 198309, 194729,
           189202, 181785, 172552, 161594, 149022, 134961, 119552, 102948, 85315, 66830, 47677, 28048,
           8138, -11853, -31725, -51280, -70323, -88664, -106118, -122513, -137683, -151477, -163758, -174403,
           -183305, -190375, -195544, -198759, -199987, -199218, -196458, -191735, -185096, -176608, -166355, -154441,
           -140983, -126116, -109989, -92764, -74611, -55713, -36258, -16441, 3540, 23486, 43197, 62477,
           81132, 98977, 115832, 131531, 145915, 158841, 170180, 179819, 187661, 193628, 197660, 199718,
           199780, 197845, 193934, 188085, 180357, 170827, 159590, 146758, 132460, 116839, 100050, 82261,
           63651, 44404, 24714, 4777, -15208, -35041, -54524, -73462, -91666, -108954, -125153, -140102,
           -153651, -165665, -176024, -184624, -191379, -196222, -199105, -199998, -198892, -195800, -190751, -183796,
           -175005, -164465, -152282, -138577, -123488, -107165, -89771, -71480, -52475, -32946, -13088, 6902,
           26822, 46474, 65662, 84194, 101885, 118557, 134045, 148194, 160862, 171923, 181266, 188797,
           194443, 198145, 199868, 199594, 197325, 193085, 186915, 178878, 169054, 157541, 144453, 129922,
           114093, 97124, 79185, 60454, 41119, 21374, 1415, -18559, -38347, -57751, -76579, -94641,
           -111758, -127759, -142482, -155782, -167526, -177596, -185891, -192329, -196845, -199394, -199952, -198511,
           -195087, -189713, -182444, -173352, -162528, -150081, -136133, -120826, -104311, -86754, -68330, -49223,
           -29625, -9730, 10261, 30151, 49738, 68829, 87232, 104764, 121249, 136522, 150431, 162837,
           173617, 182661, 189880, 195202, 198574, 199962, 199351, 196749, 192181, 185693, 177349, 167233,
           155447, 142107, 127347, 111315, 94171, 76085, 57240, 37822, 18027, -1948, -21904, -41642,
           -60963, -79675, -97590, -114531, -130328, -144822, -157869, -169339, -179117, -187105, -193224, -197412,
           -199628, -199849, -198073, -194318, -188622, -181041, -171651, -160546, -147837, -133650, -118129, -101427,
           -83711, -65160, -45957, -26295, -6370, 13618, 33471, 52989, 71977, 90246, 107614, 123906,
           138960, 152626, 164767, 175261, 184005, 190910, 195907, 198947, 199999, 199053, 196117, 191223,
           184417, 175769, 165365, 153309, 139720, 124736, 108505, 91191, 72965, 54010, 34515, 14675,
           -5311, -25244, -44925, -64157, -82748, -100512, -117272, -132860, -147121, -159912, -171104, -180588,
           -188267, -194065, -197924, -199805, -199690, -197579, -193495, -187477, -179586, -169901, -158518, -145551,
           -131130, -115398, -98514, -80646, -61971, -42677, -22957, -3008, 16971, 36781, 56224, 75104,
           93234, 110433, 126528, 141359, 154778, 166650, 176857, 185296, 191885, 196556, 199263, 199979,
           198698, 195430, 190210, 183090, 174140, 163450, 151128, 137295, 122090, 105665, 88185, 69823,
           50764, 31198, 11320, -8672, -28576, -48195, -67333, -85798, -103405, -119979, -135355, -149378,
           -161909, -172821, -182008, -189375, -194850, -198379, -199925, -199474, -197030, -192617, -186279, -178081,
           -168102, -156445, -143224, -128572, -112636, -95574, -77557, -58765, -39386, -19614, 355, 20320,
           40081, 59443, 78210, 96196, 113221, 129115, 143718, 156885, 168485, 178402, 186536, 192806,
           197150, 199523, 199904, 198286, 194688, 189144, 181711, 172462, 161489, 148904, 134830, 119409,
           102795, 85154, 66662, 47504, 27872, 7961, -12030, -31900, -51452, -70490, -88823, -106269,
           -122653, -137811, -151593, -163860, -174490, -183376, -190430, -195581, -198778, -199989, -199202, -196424,
           -191684, -185029, -176525, -166257, -154328, -140857, -125978, -109841, -92606, -74446, -55542, -36084,
           -16264, 3717, 23662, 43370, 62645, 81294, 99131, 115977, 131664, 146036, 158949, 170273,
           179897, 187722, 193672, 197687, 199727, 199771, 197819, 193891, 188025, 180280, 170735, 159483,
           146638, 132327, 116695, 99896, 82099, 63482, 44231, 24538, 4599, -15385, -35216, -54694,
           -73627, -91823, -109103, -125292, -140229, -153765, -165765, -176108, -184692, -191431, -196256, -199121,
           -199997, -198874, -195764, -190698, -183726, -174919, -164364, -152167, -138449, -123348, -107015, -89613,
           -71315, -52304, -32771, -12910, 7079, 26998, 46647, 65830, 84355, 102038, 118700, 134177,
           148313, 160967, 172013, 181341, 188856, 194484, 198169, 199874, 199582, 197296, 193038, 186852,
           178799, 168959, 157431, 144330, 129787, 113947, 96969, 79021, 60285, 40945, 21197, 1237,
           -18736, -38521, -57921, -76743, -94798, -111906, -127895, -142607, -155894, -167623, -177677, -185956,
           -192377, -196876, -199408, -199948, -198489, -195047, -189657, -182371, -173264, -162425, -149963, -136003,
           -120684, -104159, -86594, -68163, -49051, -29449, -9553, 10439, 30326, 49910, 68996, 87392,
           104915, 121390, 136652, 150548, 162941, 173705, 182733, 189936, 195241, 198595, 199965, 199337,
           196717, 192132, 185627, 177267, 167136, 155335, 141982, 127210, 111167, 94014, 75921, 57070,
           37648, 17850, -2126, -22081, -41815, -61132, -79837, -97746, -114677, -130462, -144944, -157978,
           -169434, -179196, -187168, -193270, -197441, -199639, -199842, -198048, -194276, -188563, -180965, -171560,
           -160440, -147717, -133518, -117985, -101274, -83550, -64992, -45784, -26119, -6192, 13796, 33646,
           53160, 72143, 90405, 107763, 124045, 139088, 152741, 164867, 175347, 184074, 190962, 195943,
           198965, 199999, 199035, 196082, 191171, 184349, 175685, 165265, 153195, 139593, 124597, 108356,
           91033, 72799, 53839, 34340, 14498, -5488, -25420, -45098, -64325, -82909, -100666, -117416,
           -132993, -147241, -160018, -171196, -180664, -188327, -194108, -197949, -199813, -199680, -197552, -193450,
           -187415, -179508, -169807, -158409, -145429, -130996, -115253, -98360, -80483, -61802, -42504, -22781,
           -2830, 17148, 36956, 56394, 75269, 93391, 110581, 126666, 141485, 154890, 166748, 176939,
           185363, 191935, 196589, 199278, 199977, 198677, 195392, 190155, 183018, 174053, 163348, 151011,
           137165, 121949, 105514, 88025, 69657, 50592, 31022, 11142, -8849, -28752, -48368, -67500,
           -85958, -103557, -120121, -135486, -149496, -162013, -172911, -182081, -189432, -194890, -198401, -199930,
           -199461, -196999, -192569, -186215, -178000, -168006, -156334, -143100, -128436, -112489, -95418, -77393,
           -58595, -39212, -19437, 532, 20496, 40255, 59612, 78374, 96352, 113367, 129250, 143841,
           156996, 168581, 178482, 186600, 192853, 197179, 199535, 199898, 198263, 194647, 189087, 181637,
           172372, 161385, 148785, 134699, 119267, 102643, 84993, 66495, 47332, 27696, 7783, -12207,
           -32076, -51624, -70656, -88982, -106419, -122793, -137940, -151709, -163962, -174576, -183447, -190484,
           -195618, -198798, -199991, -199186, -196391, -191634, -184961, -176441, -166158, -154215, -140730, -125840,
           -109692, -92449, -74281, -55372, -35909, -16087, 3895, 23839, 43544, 62814, 81456, 99285,
           116122, 131798, 146158, 159057, 170367, 179974, 187784, 193717, 197714, 199736, 199763, 197793,
           193847, 187964, 180203, 170642, 159376, 146517, 132194, 116550, 99742, 81937, 63314, 44058,
           24362, 4422, -15562, -35390, -54865, -73792, -91981, -109251, -125430, -140356, -153879, -165864,
           -176192, -184760, -191482, -196291, -199138, -199995, -198855, -195727, -190644, -183656, -174833, -164263,
           -152052, -138321, -123209, -106865, -89454, -71149, -52133, -32596, -12733, 7257, 27174, 46820,
           65998, 84516, 102190, 118843, 134309, 148432, 161073, 172104, 181415, 188914, 194526, 198193,
           199880, 199571, 197267, 192992, 186789, 178719, 168864, 157321, 144207, 129652, 113801, 96813,
           78858, 60115, 40771, 21020, 1059, -18912, -38695, -58091, -76907, -94954, -112053, -128032,
           -142731, -156005, -167720, -177759, -186022, -192426, -196908, -199422, -199943, -198467, -195008, -189600,
           -182298, -173175, -162321, -149846, -135873, -120542, -104007, -86433, -67996, -48879, -29273, -9375,
           10616, 30502, 50082, 69163, 87552, 105066, 121531, 136781, 150665, 163043, 173793, 182805,
           189992, 195279, 198616, 199968, 199322, 196685, 192082, 185560, 177184, 167038, 155223, 141857,
           127073, 111020, 93857, 75757, 56899, 37474, 17673, -2304, -22257, -41989, -61301, -80000,
           -97900, -114822, -130597, -145067, -158087, -169528, -179275, -187231, -193315, -197469, -199649, -199835,
           -198024, -194234, -188503, -180889, -171468, -160334, -147597, -133386, -117842, -101120, -83389, -64824,
           -45611, -25943, -6015, 13973, 33821, 53331, 72308, 90563, 107913, 124185, 139216, 152855,
           164968, 175432, 184144, 191015, 195978, 198983, 199999, 199018, 196047, 191118, 184280, 175600,
           165165, 153080, 139466, 124458, 108207, 90874, 72634, 53667, 34165, 14321, -5666, -25596,
           -45271, -64493, -83071, -100819, -117560, -133125, -147361, -160125, -171288, -180740, -188386, -194150,
           -197974, -199820, -199670, -197524, -193405, -187353, -179429, -169713, -158301, -145307, -130861, -115108,
           -98205, -80320, -61633, -42330, -22605, -2653, 17325, 37130, 56564, 75433, 93549, 110729,
           126803, 141610, 155002, 166846, 177022, 185430, 191985, 196621, 199293 >>

\* pd.date_range(start, end, freq='D')
date_range(start, end) == DataFrame([i \in 1..(end - start + 1) |-> start + (i - 1)])

FallbackDates == date_range(Ord(2020, 1, 1), Ord(2023, 12, 31))

\* int() / astype(int) of a / b: the quotient cut towards zero (b > 0).
TruncDiv(a, b) == IF a >= 0 THEN a \div b ELSE -((-a) \div b)

\* astype(int) of a value held as the floor of its thousandfold, where a
\* negative value is never a whole number.
TruncMilli(m) == IF m >= 0 THEN m \div 1000 ELSE (m \div 1000) + 1

\* One day's record: rc, rd and rr are that day's np.random.randint draws
\* for cases, deaths and recovered; casesMilli is the thousandfold of the
\* float cases value of line 112, which lines 113 and 114 read.
FallbackRow(i, d, rc, rd, rr) ==
    LET casesMilli == rc * 1000 + Sin200Milli[i]
    IN Row(d, TruncMilli(casesMilli),
           TruncMilli((casesMilli * 2) \div 100 + rd * 1000),
           TruncMilli((casesMilli * 8) \div 10 + rr * 1000))

\* The draws of one fallback table: the cases draw of day i is
\* cases[i % Len(cases)], the other two draws are the same on every day.
FallbackTable(draws) ==
    LET dates == FallbackDates
    IN DataFrame([i \in DOMAIN dates |->
                    FallbackRow(i, dates[i], draws.cases[((i - 1) % Len(draws.cases)) + 1],
                                draws.deaths, draws.recovered)])

\* create_sample_data: the table returned, the number of HTTP requests made
\* and whether the except branch produced the table.
\* A fetcher whose failure gets out: no fallback table.
ReturnedWithoutFallback(r, draws) ==
    [df |-> r.df, requests |-> 1, fallback |-> FALSE]

Returned(r, draws) ==
    [df |-> IF r.raised THEN FallbackTable(draws) ELSE r.df,
     requests |-> 1,
     fallback |-> r.raised]

create_sample_data(outcome, draws) == Returned(PrimaryPath(outcome), draws)

(***************************************************************************)
(* The HTTP outcomes the model draws.                                      *)
(***************************************************************************)
Distinct(s) == \A i, j \in DOMAIN s : i # j => s[i].k # s[j].k

\* The JSON objects of up to maxLen items with keys and values from the
\* given sets; a name of the body may also be absent.
SeriesOf(keys, vals, maxLen) ==
    LET items == {[k |-> k, v |-> v] : k \in keys, v \in vals}
        seqs == UNION {{s \in [1..n -> items] : Distinct(s)} : n \in 0..maxLen}
    IN {[present |-> TRUE, items |-> s] : s \in seqs}
       \cup {[present |-> FALSE, items |-> <<>>]}

Absent == [present |-> FALSE, items |-> <<>>]
NoBody == [cases |-> Absent, deaths |-> Absent, recovered |-> Absent]

Bodies(maxLen) ==
    {[cases |-> c, deaths |-> d, recovered |-> r] :
        c \in SeriesOf({"1/1/21", "01/01/21", "1/2/21", "bad"}, {3, 5}, maxLen),
        d \in SeriesOf({"1/1/21", "1/2/21", "12/31/20"}, {2, 4}, maxLen),
        r \in SeriesOf({"1/2/21", "12/31/20"}, {1}, maxLen)}

FailKinds == {"connection_error", "timeout", "http_error", "bad_json", "not_object"}

Outcomes(maxLen) ==
    {[kind |-> k, body |-> NoBody] : k \in FailKinds}
    \cup {[kind |-> "ok", body |-> b] : b \in Bodies(maxLen)}

(***************************************************************************)
(* The uploaded files the model draws: a header out of Schemas and up to   *)
(* MaxRows rows whose cells come from the vocabulary of their column.      *)
(***************************************************************************)
DateTexts == {"2021-01-02", "2020-12-31", "bad"}
NumTexts == {"-2", "1", "12", "x"}

ColCells(h) ==
    CASE h \in {"date", "Date "} -> DateTexts
      [] h \in {"cases", "x-1"} -> NumTexts
      [] h = "Cases" -> {"12", "x"}
      [] h = "deaths" -> {"-2", "3", "x"}
      [] h = "Deaths" -> {"-2", "x"}
      [] h = "recovered" -> {"3", "x"}
      [] h = "Country" -> {"PK"}
      [] h = "cfr-7d" -> {"1"}
      [] h = "1/1/21" -> {"-2", "1", "x"}
      [] OTHER -> {"1", "12"}

Schemas ==
    { <<"date", "cases">>,
      <<"Date ", "Cases", "Deaths">>,
      <<"date", "Cases", "recovered">>,
      <<"date", "deaths">>,
      <<"cases", "recovered">>,
      <<"date", "cases", "cfr-7d">>,
      <<"Date ", "Cases", "cfr-7d">>,
      <<"Country", "1/1/21", "1/2/21">>,
      <<"Country", "1/2/21", "1/1/21">>,
      <<"Country", "1/1/21", "01/01/21">>,
      <<"x-1", "12/31/20">> }

RECURSIVE RowsOf(_)
RowsOf(cols) ==
    IF cols = <<>> THEN {<<>>}
    ELSE {<<c>> \o r : c \in ColCells(Head(cols)), r \in RowsOf(Tail(cols))}

FilesOf(cols, maxRows) ==
    {[cols |-> cols, rows |-> rs] :
        rs \in UNION {[1..n -> RowsOf(cols)] : n \in 0..maxRows}}

Files(maxRows) == UNION {FilesOf(cols, maxRows) : cols \in Schemas}

(***************************************************************************)
(* Idle values of the variables.                                           *)
(***************************************************************************)
NoOutcome == [kind |-> "none", body |-> NoBody]
NoRun == [kind |-> "none", clicked |-> FALSE, outcome |-> NoOutcome, requests |-> 0,
          fetch |-> <<>>, fallback |-> FALSE, loaded |-> FALSE, load |-> Result(<<>>),
          hadTable |-> FALSE, year_stats |-> <<>>, quarter_stats |-> <<>>,
          predictions |-> [available |-> FALSE, rows |-> <<>>]]
NoData == [held |-> FALSE, df |-> <<>>]
NoFile == [present |-> FALSE, file |-> [cols |-> <<>>, rows |-> <<>>]]
NoResult == Result(<<>>)

(***************************************************************************)
(* SpecLoad: load_data applied to every file of Files.                     *)
(***************************************************************************)
InitLoad ==
    /\ inp \in Files(MaxRows)
    /\ out = NoResult
    /\ pc = "ready"
    /\ data = NoData
    /\ uploaded = NoFile
    /\ run = NoRun

LoadStep ==
    /\ pc = "ready"
    /\ out' = load_data(inp)
    /\ pc' = "done"
    /\ UNCHANGED <<inp, data, uploaded, run>>

NextLoad == LoadStep

SpecLoad == InitLoad /\ [][NextLoad]_vars

(***************************************************************************)
(* SpecFetch: the try block of create_sample_data applied to every outcome *)
(* of Outcomes.                                                            *)
(***************************************************************************)
InitFetch ==
    /\ inp \in Outcomes(MaxSeries)
    /\ out = NoResult
    /\ pc = "ready"
    /\ data = NoData
    /\ uploaded = NoFile
    /\ run = NoRun

FetchStep ==
    /\ pc = "ready"
    /\ out' = PrimaryPath(inp)
    /\ pc' = "done"
    /\ UNCHANGED <<inp, data, uploaded, run>>

NextFetch == FetchStep

SpecFetch == InitFetch /\ [][NextFetch]_vars

(***************************************************************************)
(* predict_cases: the forecaster.                                          *)
(***************************************************************************)
MinRecords == 7

\* df['cases'].tail(7)
Tail7(s) == SubSeq(s, Len(s) - (MinRecords - 1), Len(s))

\* int(last_week_avg * (1 + 0.05 * np.sin(i * 0.1))), with the sine taken
\* from the table to a thousandth: the mean is sum7 / 7 and the factor is
\* (20000 + 1000 sin) / 20000.
Predicted(sum7, i) ==
    TruncDiv(sum7 * (20000 + (Sin200Milli[i + 1] \div 200)), MinRecords * 20000)

Unavailable == [available |-> FALSE, rows |-> <<>>]

\* A forecaster that starts after the last row instead of the latest date.
predict_cases_from_last_row(df, days) ==
    IF Len(df) < MinRecords THEN Unavailable
    ELSE LET sum7 == SumSeq(Tail7([k \in DOMAIN df |-> df[k].cases]))
             start == df[Len(df)].date + 1
         IN [available |-> TRUE,
             rows |-> [i \in 1..days |->
                         [date |-> start + (i - 1),
                          predicted_cases |-> Predicted(sum7, i - 1)]]]

predict_cases(df, days) ==
    IF Len(df) < MinRecords THEN Unavailable
    ELSE LET sum7 == SumSeq(Tail7([k \in DOMAIN df |-> df[k].cases]))
             start == SeqMax([k \in DOMAIN df |-> df[k].date]) + 1
             future_dates == [i \in 1..days |-> start + (i - 1)]
         IN [available |-> TRUE,
             rows |-> [i \in 1..days |->
                         [date |-> future_dates[i],
                          predicted_cases |-> Predicted(sum7, i - 1)]]]

(***************************************************************************)
(* SpecPredict: predict_cases applied to tables of 0 to MinRecords +       *)
(* MaxExtra records, in any order of their dates, and to horizons of 0 to  *)
(* MaxHorizon days.                                                        *)
(***************************************************************************)
PredictDates == {Ord(2020, 12, 31), Ord(2021, 1, 2)}

PredictTables(maxLen) ==
    UNION {{[i \in 1..n |-> Row(ds[i], 12 * i, 0, 0)] : ds \in [1..n -> PredictDates]} :
             n \in 0..maxLen}

InitPredict ==
    /\ inp \in {[df |-> t, days |-> h] : t \in PredictTables(MinRecords + MaxExtra), h \in 0..MaxHorizon}
    /\ out = Unavailable
    /\ pc = "ready"
    /\ data = NoData
    /\ uploaded = NoFile
    /\ run = NoRun

PredictStep ==
    /\ pc = "ready"
    /\ out' = predict_cases(inp.df, inp.days)
    /\ pc' = "done"
    /\ UNCHANGED <<inp, data, uploaded, run>>

NextPredict == PredictStep

SpecPredict == InitPredict /\ [][NextPredict]_vars

(***************************************************************************)
(* The script, lines 145-269: what one run does to st.session_state.data   *)
(* and what it renders.                                                    *)
(***************************************************************************)
PredictDays == 30

\* Lines 200-202: the year, quarter and year_quarter columns, written into
\* the table held in session state.  year_quarter, the string
\* "<year> Q<quarter>", is the pair <<year, quarter>>.
AttachDerived(df) ==
    DataFrame([i \in DOMAIN df |->
       LET year == YearOf(df[i].date)
           quarter == QuarterOf(df[i].date)
       IN [date |-> df[i].date, cases |-> df[i].cases, deaths |-> df[i].deaths,
           recovered |-> df[i].recovered, year |-> year, quarter |-> quarter,
           year_quarter |-> <<year, quarter>>]])

\* df[['date', 'cases', 'deaths', 'recovered']]
Base(df) == [i \in DOMAIN df |-> Row(df[i].date, df[i].cases, df[i].deaths, df[i].recovered)]

\* The order of the year_quarter strings (years of four digits).
PairLess(a, b) == a[1] < b[1] \/ (a[1] = b[1] /\ a[2] < b[2])

RECURSIVE SortPairs(_)
SortPairs(S) ==
    IF S = {} THEN <<>>
    ELSE LET m == CHOOSE x \in S : \A y \in S \ {x} : PairLess(x, y)
         IN <<m>> \o SortPairs(S \ {m})

\* ['cases'].agg(['sum', 'mean', 'max']) of the rows of one group; the mean
\* is kept as the sum and the number of rows it divides.
AggCases(key, rows) ==
    LET cs == [i \in DOMAIN rows |-> rows[i].cases]
    IN [key |-> key, total |-> SumSeq(cs),
        average |-> [num |-> SumSeq(cs), den |-> Len(cs)], peak |-> SeqMax(cs)]

\* A rollup whose 'Total Cases' column is given the group's maximum.
YearStatsPeakAsTotal(df) ==
    LET keys == SortSet({df[i].year : i \in DOMAIN df})
    IN [k \in DOMAIN keys |->
          LET a == AggCases(keys[k], SelectSeq(df, LAMBDA r : r.year = keys[k]))
          IN [a EXCEPT !.total = a.peak]]

\* df.groupby('year')['cases'].agg(...).reset_index(): one row per year,
\* the years ascending.
YearStats(df) ==
    LET keys == SortSet({df[i].year : i \in DOMAIN df})
    IN [k \in DOMAIN keys |->
          AggCases(keys[k], SelectSeq(df, LAMBDA r : r.year = keys[k]))]

\* df.groupby('year_quarter')['cases'].agg(...), sorted by 'Year-Quarter'.
QuarterStats(df) ==
    LET keys == SortPairs({df[i].year_quarter : i \in DOMAIN df})
    IN [k \in DOMAIN keys |->
          AggCases(keys[k], SelectSeq(df, LAMBDA r : r.year_quarter = keys[k]))]

Held(df) == [held |-> TRUE, df |-> df]

\* Lines 152-158: the button.  create_sample_data raises nothing, so the
\* except of line 157 is never taken.
ButtonHandler(clicked, fetched, d) == IF clicked THEN Held(fetched.df) ELSE d

\* A handler whose except branch leaves session state alone.
UploadHandlerKeepsTable(upl, l, d) ==
    IF upl.present /\ ~l.raised THEN Held(l.df) ELSE d

\* Lines 160-166: the uploader.  l is load_data's result for the file.
UploadHandler(upl, l, d) ==
    IF upl.present THEN (IF l.raised THEN NoData ELSE Held(l.df)) ELSE d

\* Lines 168-267: with a table held, the derived columns are written into
\* it and the rollups and the forecast are rendered; the record of the run.
\* f is create_sample_data's result, l is load_data's, d is session state
\* after the two handlers and df is its table with the derived columns.
Render(kind, clicked, outcome, upl, f, l, d, df) ==
    /\ data' = IF d.held THEN Held(df) ELSE NoData
    /\ uploaded' = upl
    /\ run' = [kind |-> kind, clicked |-> clicked,
               outcome |-> IF clicked THEN outcome ELSE NoOutcome,
               requests |-> IF clicked THEN f.requests ELSE 0,
               fetch |-> IF clicked THEN f.df ELSE <<>>,
               fallback |-> clicked /\ f.fallback,
               loaded |-> upl.present,
               load |-> IF upl.present THEN l ELSE NoResult,
               hadTable |-> data.held,
               year_stats |-> IF d.held THEN YearStats(df) ELSE <<>>,
               quarter_stats |-> IF d.held THEN QuarterStats(df) ELSE <<>>,
               predictions |-> IF d.held THEN predict_cases(df, PredictDays)
                               ELSE Unavailable]
    /\ UNCHANGED <<inp, out, pc>>

Display(kind, clicked, outcome, upl, f, l, d) ==
    Render(kind, clicked, outcome, upl, f, l, d, AttachDerived(d.df))

Handlers(kind, clicked, outcome, upl, f, l) ==
    Display(kind, clicked, outcome, upl, f, l,
            UploadHandler(upl, l, ButtonHandler(clicked, f, data)))

\* One run of the script: clicked is st.button's value in this run, outcome
\* and draws are what the request and the random generator would give, upl
\* is the uploader's value.
Script(kind, clicked, outcome, draws, upl) ==
    Handlers(kind, clicked, outcome, upl,
             create_sample_data(outcome, draws), load_data(upl.file))

(***************************************************************************)
(* Spec: the session.  Every step is one user interaction and the run of   *)
(* the script it triggers.  The uploader keeps its file from run to run    *)
(* until the user removes it, and hands it to every run.                   *)
(***************************************************************************)
File(cols, rows) == [cols |-> cols, rows |-> rows]

SessionFiles ==
    { File(<<"date", "cases">>, << <<"2021-01-02", "1">>, <<"2020-12-31", "12">> >>),
      File(<<"Date ", "Cases", "Deaths">>,
           [i \in 1..MinRecords |->
              IF i % 2 = 1 THEN <<"2020-12-31", "12", "3">> ELSE <<"2021-01-02", "-2", "x">>]),
      File(<<"Country", "1/1/21", "1/2/21">>, << <<"PK", "1", "12">>, <<"PK", "x", "12">> >>),
      File(<<"date", "deaths">>, << <<"2021-01-02", "3">> >>),
      File(<<"date", "cases">>, << <<"bad", "1">>, <<"2021-01-02", "x">> >>) }

Series(items) == [present |-> TRUE, items |-> items]
Item(k, v) == [k |-> k, v |-> v]

SessionBodies ==
    { [cases |-> Series(<<Item("12/31/20", 3), Item("1/1/21", 5), Item("1/2/21", 4)>>),
       deaths |-> Series(<<Item("1/1/21", 2), Item("2021-04-01", 4)>>),
       recovered |-> Series(<<Item("1/2/21", 1)>>)],
      [cases |-> Series(<<Item("1/2/21", 5)>>), deaths |-> Absent, recovered |-> Absent],
      [cases |-> Series(<<>>), deaths |-> Series(<<Item("1/1/21", 2)>>), recovered |-> Absent],
      NoBody }

SessionFailKinds == {"connection_error", "timeout", "http_error", "bad_json"}

SessionOutcomes ==
    {[kind |-> k, body |-> NoBody] : k \in SessionFailKinds}
    \cup {[kind |-> "ok", body |-> b] : b \in SessionBodies}

\* The draws of np.random.randint(100, 1000, n), randint(0, 10, n) and
\* randint(0, 50, n) the model takes: least and greatest values.
Draws ==
    { [cases |-> <<100, 999>>, deaths |-> 0, recovered |-> 0],
      [cases |-> <<999>>, deaths |-> 9, recovered |-> 49] }

NoDraws == [cases |-> <<100>>, deaths |-> 0, recovered |-> 0]

Init ==
    /\ data = NoData
    /\ uploaded = NoFile
    /\ run = NoRun
    /\ inp = NoResult
    /\ out = NoResult
    /\ pc = "session"

\* The user picks a file in the uploader.
UploadFile ==
    \E f \in SessionFiles :
        /\ pc = "session"
        /\ Script("upload", FALSE, NoOutcome, NoDraws, [present |-> TRUE, file |-> f])

\* The user clicks "Load live data from API".
ClickFetch ==
    \E o \in SessionOutcomes, d \in Draws :
        /\ pc = "session"
        /\ Script("click", TRUE, o, d, uploaded)

\* The user removes the file from the uploader.
RemoveFile ==
    /\ pc = "session"
    /\ uploaded.present
    /\ Script("remove", FALSE, NoOutcome, NoDraws, NoFile)

Next == UploadFile \/ ClickFetch \/ RemoveFile

Spec == Init /\ [][Next]_vars

(***************************************************************************)
(* The claims.                                                             *)
(***************************************************************************)
SchemaErrors ==
    {"Missing required columns", "Could not parse date column",
     "Could not parse cases column"}

\* C1 as stated: when an upload fails with a SchemaError, a table held
\* before the upload is still the table held after it.
C1_PriorTableKept ==
    [][(run'.kind = "upload" /\ run'.load.raised /\ run'.load.err \in SchemaErrors
        /\ data.held) => data' = data]_vars

\* C1 amended: after a run in which load_data raised, session state holds
\* no table, whether or not one was held before.
C1_FailedUploadClears == (run.loaded /\ run.load.raised) => ~data.held

C1_Witness ==
    /\ run.kind = "upload"
    /\ run.load.raised
    /\ run.load.err \in SchemaErrors
    /\ run.hadTable
    /\ ~data.held

\* C2: at the end of a run whose action produced a table, session state
\* holds exactly that table: after a fetch-click the table the fetch
\* returned, after a successful upload the table load_data returned.
C2_HeldIsLatestProduced ==
    /\ run.clicked => (data.held /\ Base(data.df) = run.fetch)
    /\ (run.kind = "upload" /\ ~run.load.raised) =>
           (data.held /\ Base(data.df) = run.load.df)

\* C3: a fetch-click makes exactly one request and create_sample_data
\* returns a non-empty table for every outcome of it, a fallback table
\* whenever the try block raised; with no file in the uploader, session
\* state then holds a non-empty table.
C3_FetchNeverFails ==
    run.clicked =>
        /\ run.requests = 1
        /\ Len(run.fetch) > 0
        /\ PrimaryPath(run.outcome).raised =>
               (run.fallback /\ \E d \in Draws : run.fetch = FallbackTable(d))
        /\ ~uploaded.present => (data.held /\ Len(data.df) > 0)

C3_Witness ==
    /\ run.clicked
    /\ run.outcome.kind = "timeout"
    /\ ~uploaded.present
    /\ data.held
    /\ Len(data.df) = Len(run.fetch)
    /\ Len(run.fetch) > 3

\* C4: a fallback table has exactly one record per day from 2020-01-01 to
\* 2023-12-31, and every record's cases value is at least 0.
C4_FallbackDaysAndNonNegative ==
    run.fallback =>
        /\ Len(run.fetch) = Ord(2023, 12, 31) - Ord(2020, 1, 1) + 1
        /\ \A i \in DOMAIN run.fetch :
               /\ run.fetch[i].date = Ord(2020, 1, 1) + (i - 1)
               /\ run.fetch[i].cases >= 0

\* C5: the dates of every table load_data returns are strictly ascending
\* (so no date occurs twice).
C5_DatesUniqueAscending ==
    (pc = "done" /\ ~out.raised) =>
        \A i \in 1..(Len(out.df) - 1) : out.df[i].date < out.df[i + 1].date

\* C6: cases, deaths and recovered of every record load_data returns are
\* at least 0.
C6_CountsNonNegative ==
    (pc = "done" /\ ~out.raised) =>
        \A i \in DOMAIN out.df :
            out.df[i].cases >= 0 /\ out.df[i].deaths >= 0 /\ out.df[i].recovered >= 0

\* C7: predict_cases is unavailable exactly for tables of fewer than 7
\* records; otherwise it returns exactly `days` records, record i dated i
\* days after the latest date of the table, so every predicted date is
\* after every historical one.
C7_PredictShape ==
    pc = "done" =>
        LET df == inp.df
            latest == CHOOSE d \in {df[j].date : j \in DOMAIN df} :
                          \A j \in DOMAIN df : df[j].date <= d
        IN /\ out.available <=> Len(df) >= 7
           /\ out.available =>
                  /\ Len(out.rows) = inp.days
                  /\ \A i \in DOMAIN out.rows :
                         /\ out.rows[i].date = latest + i
                         /\ \A j \in DOMAIN df : out.rows[i].date > df[j].date

C7_Witness ==
    /\ pc = "done"
    /\ out.available
    /\ Len(out.rows) > 1
    /\ \E j \in DOMAIN inp.df : inp.df[j].date > inp.df[Len(inp.df)].date

\* C8: the totals of the yearly rollup add up to the sum of cases over all
\* records of the held table, and so do the totals of the quarterly
\* rollup; every record is counted in exactly one group of each.
C8_RollupsConserveTotal ==
    data.held =>
        LET total == SumSeq([i \in DOMAIN data.df |-> data.df[i].cases])
            ys == run.year_stats
            qs == run.quarter_stats
        IN /\ SumSeq([k \in DOMAIN ys |-> ys[k].total]) = total
           /\ SumSeq([k \in DOMAIN qs |-> qs[k].total]) = total
           /\ SumSeq([k \in DOMAIN ys |-> ys[k].average.den]) = Len(data.df)
           /\ SumSeq([k \in DOMAIN qs |-> qs[k].average.den]) = Len(data.df)
           /\ \A j, k \in DOMAIN ys : j # k => ys[j].key # ys[k].key
           /\ \A j, k \in DOMAIN qs : j # k => qs[j].key # qs[k].key

C8_Witness ==
    /\ data.held
    /\ Len(run.year_stats) > 1
    /\ Len(run.quarter_stats) > Len(run.year_stats)
    /\ \E k \in DOMAIN run.year_stats : run.year_stats[k].total > run.year_stats[k].peak

\* The sum, over the date-like columns whose header is the date d and over
\* all rows, of the cell values (a cell that is no number counts 0).
ColumnTotal(file, d) ==
    SumSeq([c \in DOMAIN file.cols |->
              IF IsDatePattern(file.cols[c]) /\ ToDatetime(file.cols[c]) = d
              THEN SumSeq([r \in DOMAIN file.rows |-> FillNa0(ToNumeric(file.rows[r][c]))])
              ELSE 0])

SeriesDates(body, name) == {ToDatetime(Get(body, name)[i].k) : i \in DOMAIN Get(body, name)}

\* The cumulative value a series gives for date d, 0 when it has none.
Cumulative(body, name, d) ==
    LET items == Get(body, name)
        at == {i \in DOMAIN items : ToDatetime(items[i].k) = d}
    IN IF at = {} THEN 0 ELSE items[CHOOSE i \in at : TRUE].v

DatesDistinct(body, name) ==
    \A i, j \in DOMAIN Get(body, name) :
        i # j => ToDatetime(Get(body, name)[i].k) # ToDatetime(Get(body, name)[j].k)

\* C10 as stated: every date of any of the three series is the date of
\* exactly one record of the table the try block builds.
C10_OuterJoin ==
    (pc = "done" /\ ~out.raised) =>
        \A d \in SeriesDates(inp.body, "cases") \cup SeriesDates(inp.body, "deaths")
                   \cup SeriesDates(inp.body, "recovered") :
            Cardinality({i \in DOMAIN out.df : out.df[i].date = d}) = 1

\* C10 amended: the dates of the table are the dates of the cases series
\* (a date only deaths or recovered has is left out).  When no series
\* names a date twice, the table has one record per date of the cases
\* series, ascending, and each of its three values is the difference of
\* the series' cumulative value for that date (0 when the series has none)
\* from the one for the record before (the first record keeps its value),
\* with negative differences replaced by 0.
C10_LeftJoinOnCases ==
    (pc = "done" /\ ~out.raised) =>
        LET df == out.df
            n == Len(df)
            cum(name, i) == Cumulative(inp.body, name, df[i].date)
            delta(name, i) == IF i = 1 THEN cum(name, 1) ELSE cum(name, i) - cum(name, i - 1)
            clipped(name, i) == IF delta(name, i) < 0 THEN 0 ELSE delta(name, i)
        IN /\ {df[i].date : i \in 1..n} = SeriesDates(inp.body, "cases")
           /\ (DatesDistinct(inp.body, "cases") /\ DatesDistinct(inp.body, "deaths")
               /\ DatesDistinct(inp.body, "recovered")) =>
                  /\ n = Len(Get(inp.body, "cases"))
                  /\ \A i \in 1..(n - 1) : df[i].date < df[i + 1].date
                  /\ \A i \in 1..n :
                         /\ df[i].cases = clipped("cases", i)
                         /\ df[i].deaths = clipped("deaths", i)
                         /\ df[i].recovered = clipped("recovered", i)

C10_Witness ==
    /\ pc = "done"
    /\ ~out.raised
    /\ Len(out.df) = 2
    /\ SeriesDates(inp.body, "deaths") \ SeriesDates(inp.body, "cases") # {}
    /\ SeriesDates(inp.body, "cases") \ SeriesDates(inp.body, "deaths") # {}
    /\ SeriesDates(inp.body, "cases") \cap SeriesDates(inp.body, "deaths") # {}
    /\ out.df[2].cases = 0
    /\ out.df[1].deaths + out.df[2].deaths > 0

====
